---- MODULE Spec2Model ----
(***************************************************************************)
(* RevenueLoan (contracts/RevenueLoan.sol): the on-chain loan ledger.       *)
(*                                                                         *)
(* Every transaction is one action.  A transaction runs the called         *)
(* function on a working copy `w` of the contract's storage and of the     *)
(* balances; a revert returns the copy taken at entry.  A value transfer   *)
(* (`addr.call{value: v}("")`) hands control to the recipient, whose       *)
(* behaviour is an input of the transaction: it may call back into the     *)
(* contract once and it accepts or rejects the value.                       *)
(*                                                                         *)
(* `last` is the receipt of the latest transaction.  A transaction in     *)
(* which a call reverted (the transaction itself, or a call a recipient    *)
(* made from inside it) is explored as the final step of a behaviour: a    *)
(* reverted call leaves the chain where it was (C8_AtomicFailure and       *)
(* C9_GuardedNestedFails check exactly that), so what can follow it is     *)
(* what can follow the same transaction without that call.                 *)
(***************************************************************************)
EXTENDS Integers, Sequences, FiniteSets, TLC

\* ---------------------------------------------------------------- bounds
MaxPrincipal == 2      \* largest principal a caller asks for
MaxTime      == 2      \* last block timestamp of a behaviour
MaxUint      == 1023   \* stand-in for type(uint256).max, far above any value in circulation
InitBal      == 4      \* what every account holds at deployment

\* ------------------------------------------------------------ identities
Addr    == {"a1", "a2"}
NoAddr  == "0x0"
Ledger  == "this"
Holders == Addr \cup {Ledger, NoAddr}

\* Loan 1 is created by a transaction, with any arguments; the id after it
\* is left to a createLoan made from inside a callback.
LoanIds == {1, 2}
Direct  == {1}
TryIds  == {0, 1, 2}
Values  == 0..(MaxPrincipal + 1)

Principals == 0..MaxPrincipal
Shares     == {0, 1}
Caps       == {99, 100, 150}
Durations  == {0, 1}

VARIABLES loans, nextLoanId, paused, entered, owner, bal, now, last

vars == <<loans, nextLoanId, paused, entered, owner, bal, now, last>>

\* The value of an unwritten slot of `mapping(uint256 => Loan)`.
ZeroLoan ==
  [borrower |-> NoAddr, lender |-> NoAddr, principal |-> 0,
   revenueSharePercent |-> 0, repaymentCapPercent |-> 0, totalRepaid |-> 0,
   funded |-> FALSE, active |-> FALSE, collateralAmount |-> 0,
   startTime |-> 0, duration |-> 0]

\* ------------------------------------------------- the recipient's code
NoCall == [op |-> "none", id |-> 0]

GuardedOps == {"fundLoan", "repay", "claimCollateral"}

NestedCalls ==
  {NoCall}
  \cup {[op |-> o, id |-> 0] : o \in {"createLoan", "pause", "unpause"}}
  \cup {[op |-> o, id |-> i] : o \in GuardedOps \cup {"getLoan"}, i \in Direct}

\* What a recipient does when it is handed value: at most one call back into
\* the contract, then it accepts the value or reverts.  A recipient that
\* reverts undoes whatever it called, so it is taken to have called nothing.
Callbacks ==
  {cb \in [nested : NestedCalls, accept : BOOLEAN] :
     cb.accept \/ cb.nested = NoCall}

Quiet == [nested |-> NoCall, accept |-> TRUE]

\* --------------------------------------------------- revert and return
\* A revert leaves the caller's copy as it was when the call was made.
\* `trace` and `nested` are not storage: they record what the call executed.
RevertKeeps(w0, w, e) ==
  [ok |-> FALSE, err |-> e, w |-> w]

Revert(w0, w, e) ==
  [ok |-> FALSE, err |-> e,
   w |-> [w0 EXCEPT !.nested = w.nested, !.trace = w.trace]]

Return(w) == [ok |-> TRUE, err |-> "ok", w |-> w]

\* The working copy a transaction starts from.
W ==
  [loans |-> loans, nextLoanId |-> nextLoanId, paused |-> paused,
   entered |-> entered, owner |-> owner, bal |-> bal, now |-> now,
   trace |-> <<>>, nested |-> <<>>]

\* msg.value reaches the contract before the function body runs.
Pay(w, sender, value) ==
  [w EXCEPT !.bal[sender] = @ - value, !.bal[Ledger] = @ + value]

Emit(w, e) == [w EXCEPT !.trace = Append(@, <<"emit", e>>)]

\* A write of one field of loans[id].
SStore(w, id, field, v) ==
  [w EXCEPT !.loans[id][field] = v, !.trace = Append(@, <<"sstore", field>>)]


\* ------------------------------------------------------------ modifiers
\* The borrower check dropped.
onlyBorrowerOff(w, sender, id) == TRUE

onlyBorrower(w, sender, id) == w.loans[id].borrower = sender

\* The lender check comparing against the borrower.
onlyLenderWrong(w, sender, id) == w.loans[id].borrower = sender

onlyLender(w, sender, id) == w.loans[id].lender = sender

\* The upper end of the id range off by one.
loanExistsOffByOne(w, id) == ~(id = 0 \/ id > w.nextLoanId)

loanExists(w, id) == ~(id = 0 \/ id >= w.nextLoanId)

\* `funded` read where `active` is meant.
loanActiveFunded(w, id) == w.loans[id].funded

\* The check on `active` dropped.
loanActiveOff(w, id) == TRUE

loanActive(w, id) == w.loans[id].active

loanFunded(w, id) == w.loans[id].funded

whenNotPaused(w) == ~w.paused

\* The guard on the reentrancy status dropped.
nonReentrantOff(w) == TRUE

nonReentrant(w) == ~w.entered

\* The owner check dropped.
onlyOwnerAny(w, sender) == TRUE

onlyOwner(w, sender) == w.owner = sender

\* The division by 100 forgotten.
requiredRepaymentPercent(principal, repaymentCapPercent) ==
  principal * repaymentCapPercent

\* A rounding slip: the amount owed rounded up instead of down.
requiredRepaymentCeil(principal, repaymentCapPercent) ==
  (principal * repaymentCapPercent + 99) \div 100

requiredRepayment(principal, repaymentCapPercent) ==
  (principal * repaymentCapPercent) \div 100

\* `=` written for `+`: the payment replaces the running total.
sumRepaidReset(totalRepaid, value) == value

\* uint256 newTotalRepaid = loan.totalRepaid + msg.value
sumRepaid(totalRepaid, value) == totalRepaid + value

\* ---------------------------------------------------------- admin calls
pause(w, sender) ==
  IF ~onlyOwner(w, sender) THEN Revert(w, w, "OwnableUnauthorizedAccount")
  ELSE IF ~whenNotPaused(w) THEN Revert(w, w, "EnforcedPause")
  ELSE Return(Emit([w EXCEPT !.paused = TRUE], "Paused"))

unpause(w, sender) ==
  IF ~onlyOwner(w, sender) THEN Revert(w, w, "OwnableUnauthorizedAccount")
  ELSE IF whenNotPaused(w) THEN Revert(w, w, "ExpectedPause")
  ELSE Return(Emit([w EXCEPT !.paused = FALSE], "Unpaused"))

\* ----------------------------------------------------------- createLoan
\* An off-by-one slip in the collateral bound.
collateralTooHighLax(value, amount) == value > amount + 1

\* Collateral equal to the principal turned away as well.
collateralTooHighStrict(value, amount) == value >= amount

\* if (msg.value > _amount) revert CollateralTooHigh()
collateralTooHigh(value, amount) == value > amount

\* The posted value left out of the record.
newLoanNoCollateral(sender, value, amount, revenueSharePercent, repaymentCapPercent, duration) ==
  [borrower            |-> sender,
   lender              |-> NoAddr,
   principal           |-> amount,
   revenueSharePercent |-> revenueSharePercent,
   repaymentCapPercent |-> repaymentCapPercent,
   totalRepaid         |-> 0,
   funded              |-> FALSE,
   active              |-> FALSE,
   collateralAmount    |-> 0,
   startTime           |-> 0,
   duration            |-> duration]

\* The record written as funded and active at creation.
newLoanOpen(sender, value, amount, revenueSharePercent, repaymentCapPercent, duration) ==
  [borrower            |-> sender,
   lender              |-> NoAddr,
   principal           |-> amount,
   revenueSharePercent |-> revenueSharePercent,
   repaymentCapPercent |-> repaymentCapPercent,
   totalRepaid         |-> 0,
   funded              |-> TRUE,
   active              |-> TRUE,
   collateralAmount    |-> value,
   startTime           |-> 0,
   duration            |-> duration]

\* Loan({borrower: msg.sender, lender: address(0), ...})
newLoan(sender, value, amount, revenueSharePercent, repaymentCapPercent, duration) ==
  [borrower            |-> sender,
   lender              |-> NoAddr,
   principal           |-> amount,
   revenueSharePercent |-> revenueSharePercent,
   repaymentCapPercent |-> repaymentCapPercent,
   totalRepaid         |-> 0,
   funded              |-> FALSE,
   active              |-> FALSE,
   collateralAmount    |-> value,
   startTime           |-> 0,
   duration            |-> duration]

createLoan(w0, sender, value, amount, revenueSharePercent, repaymentCapPercent, duration) ==
  LET w == Pay(w0, sender, value) IN
  IF ~whenNotPaused(w) THEN Revert(w0, w, "EnforcedPause")
  ELSE IF amount = 0 THEN Revert(w0, w, "InvalidPrincipal")
  ELSE IF revenueSharePercent = 0 THEN Revert(w0, w, "InvalidRevenueShare")
  ELSE IF repaymentCapPercent < 100 THEN Revert(w0, w, "InvalidRepaymentCap")
  ELSE IF duration = 0 THEN Revert(w0, w, "InvalidDuration")
  ELSE IF collateralTooHigh(value, amount)
    THEN Revert(w0, w, "CollateralTooHigh")
  ELSE IF w.nextLoanId + 1 > MaxUint THEN Revert(w0, w, "Panic")
  ELSE
    LET loanId == w.nextLoanId
        w1 == [w EXCEPT
                 !.nextLoanId = @ + 1,
                 !.loans[loanId] =
                    newLoan(sender, value, amount, revenueSharePercent,
                            repaymentCapPercent, duration)]
    IN Return(Emit(w1, "LoanCreated"))

\* ------------------------------------------------------------- fundLoan
\* The checks of fundLoan without the one on `funded`.
fundChecksNoFunded(loan, sender, value) ==
  IF loan.active THEN "LoanAlreadyActive"
  ELSE IF sender = loan.borrower THEN "BorrowerCannotFundOwnLoan"
  ELSE IF value # loan.principal THEN "IncorrectFundingAmount"
  ELSE "ok"

\* The checks of fundLoan with any value of at least the principal let in.
fundChecksAtLeast(loan, sender, value) ==
  IF loan.funded THEN "LoanAlreadyFunded"
  ELSE IF loan.active THEN "LoanAlreadyActive"
  ELSE IF sender = loan.borrower THEN "BorrowerCannotFundOwnLoan"
  ELSE IF value < loan.principal THEN "IncorrectFundingAmount"
  ELSE "ok"

\* The checks of fundLoan with the one on the caller moved to the front.
fundChecksCallerFirst(loan, sender, value) ==
  IF sender = loan.borrower THEN "BorrowerCannotFundOwnLoan"
  ELSE IF loan.funded THEN "LoanAlreadyFunded"
  ELSE IF loan.active THEN "LoanAlreadyActive"
  ELSE IF value # loan.principal THEN "IncorrectFundingAmount"
  ELSE "ok"

\* The four checks at the head of fundLoan: the error of the first that
\* fails, "ok" when none does.
fundChecks(loan, sender, value) ==
  IF loan.funded THEN "LoanAlreadyFunded"
  ELSE IF loan.active THEN "LoanAlreadyActive"
  ELSE IF sender = loan.borrower THEN "BorrowerCannotFundOwnLoan"
  ELSE IF value # loan.principal THEN "IncorrectFundingAmount"
  ELSE "ok"

\* A function that has reached a call{value}: the storage it has written,
\* the recipient, the amount, and the locals it holds across the call.
Calling(w, to, amount, locals) ==
  [done |-> FALSE, w |-> w, to |-> to, amount |-> amount, locals |-> locals]

\* A function that has ended, by revert or return, with result r.
Ended(r) == [done |-> TRUE, r |-> r]

\* The record left unwritten when the principal is handed over.
fundCommitNone(w, id, sender) == w

\* The write of `funded` forgotten.
fundCommitNoFunded(w, id, sender) ==
  SStore(SStore(SStore(w, id, "lender", sender),
                id, "active", TRUE),
         id, "startTime", w.now)

\* loan.lender = msg.sender; loan.funded = true; loan.active = true;
\* loan.startTime = block.timestamp
fundCommit(w, id, sender) ==
  SStore(SStore(SStore(SStore(w, id, "lender", sender),
                       id, "funded", TRUE),
                id, "active", TRUE),
         id, "startTime", w.now)

\* fundLoan up to its call{value} to the borrower.
fundLoanEnter(w0, sender, value, id) ==
  LET w == Pay(w0, sender, value) IN
  IF ~nonReentrant(w) THEN Ended(Revert(w0, w, "ReentrancyGuardReentrantCall"))
  ELSE IF ~whenNotPaused(w) THEN Ended(Revert(w0, w, "EnforcedPause"))
  ELSE IF ~loanExists(w, id) THEN Ended(Revert(w0, w, "LoanDoesNotExist"))
  ELSE
    LET loan == w.loans[id] IN
    IF fundChecks(loan, sender, value) # "ok"
      THEN Ended(Revert(w0, w, fundChecks(loan, sender, value)))
    ELSE
      LET borrower == loan.borrower
          wa == [w EXCEPT !.entered = TRUE]
          we == fundCommit(wa, id, sender)
          wf == Emit(we, "LoanFunded")
      IN Calling(wf, borrower, value, <<>>)

\* fundLoan from the return of its call{value}.
fundLoanExit(w0, c) ==
  IF ~c.success THEN Revert(w0, c.w, "TransferFailed")
  ELSE Return([c.w EXCEPT !.entered = FALSE])

\* ---------------------------------------------------------------- repay
\* repay up to its call{value} to the lender.
repayEnter(w0, sender, value, id) ==
  LET w == Pay(w0, sender, value) IN
  IF ~nonReentrant(w) THEN Ended(Revert(w0, w, "ReentrancyGuardReentrantCall"))
  ELSE IF ~whenNotPaused(w) THEN Ended(Revert(w0, w, "EnforcedPause"))
  ELSE IF ~loanExists(w, id) THEN Ended(Revert(w0, w, "LoanDoesNotExist"))
  ELSE IF ~onlyBorrower(w, sender, id) THEN Ended(Revert(w0, w, "NotBorrower"))
  ELSE IF ~loanFunded(w, id) THEN Ended(Revert(w0, w, "LoanNotFunded"))
  ELSE IF ~loanActive(w, id) THEN Ended(Revert(w0, w, "LoanNotActive"))
  ELSE IF value = 0 THEN Ended(Revert(w0, w, "RepaymentMustBePositive"))
  ELSE
    LET loan == w.loans[id]
        principal == loan.principal
        repaymentCapPercent == loan.repaymentCapPercent
        lender == loan.lender
        borrower == loan.borrower
    IN
    IF principal * repaymentCapPercent > MaxUint
      THEN Ended(Revert(w0, w, "Panic"))
    ELSE IF loan.totalRepaid + value > MaxUint
      THEN Ended(Revert(w0, w, "Panic"))
    ELSE
      LET required == requiredRepayment(principal, repaymentCapPercent)
          newTotalRepaid == sumRepaid(loan.totalRepaid, value)
          wa == [w EXCEPT !.entered = TRUE]
          wb == SStore(wa, id, "totalRepaid", newTotalRepaid)
          wc == Emit(wb, "LoanRepaid")
      IN Calling(wc, lender, value,
                 [borrower |-> borrower, requiredRepayment |-> required,
                  newTotalRepaid |-> newTotalRepaid])

\* The loan closed only when the total lands exactly on the amount required.
capReachedExact(newTotalRepaid, required) == newTotalRepaid = required

\* if (newTotalRepaid >= requiredRepayment)
capReached(newTotalRepaid, required) == newTotalRepaid >= required

\* The loan left open by the payment that reaches the cap.
closeLoanNot(w, id) == w

\* loan.active = false
closeLoan(w, id) == SStore(w, id, "active", FALSE)

\* repay from the return of the call to the lender: to its end, or up to its
\* call{value} to the borrower.
repayClose(w0, id, locals, c1) ==
  IF ~c1.success THEN Ended(Revert(w0, c1.w, "TransferFailed"))
  ELSE IF capReached(locals.newTotalRepaid, locals.requiredRepayment) THEN
    LET wd == closeLoan(c1.w, id)
        collateral == wd.loans[id].collateralAmount
    IN
    IF collateral > 0 THEN
      LET we == SStore(wd, id, "collateralAmount", 0)
      IN Calling(we, locals.borrower, collateral, locals)
    ELSE Ended(Return([Emit(wd, "LoanClosed") EXCEPT !.entered = FALSE]))
  ELSE Ended(Return([c1.w EXCEPT !.entered = FALSE]))

\* repay from the return of the call to the borrower.
repayExit(w0, c2) ==
  IF ~c2.success THEN Revert(w0, c2.w, "TransferFailed")
  ELSE Return([Emit(c2.w, "LoanClosed") EXCEPT !.entered = FALSE])

\* ------------------------------------------------------ claimCollateral
\* The maturity instant itself counted as matured.
notMaturedStrict(timestamp, startTime, duration) ==
  timestamp < startTime + duration

\* if (block.timestamp <= startTime + duration) revert LoanNotMatured()
notMatured(timestamp, startTime, duration) ==
  timestamp <= startTime + duration

\* The check on the collateral dropped.
noCollateralOff(collateral) == FALSE

\* if (collateral == 0) revert NoCollateral()
noCollateral(collateral) == collateral = 0

\* The collateral left in the record that is paid out.
claimEffectsKeepCollateral(w, id) == SStore(w, id, "active", FALSE)

\* loan.active = false; loan.collateralAmount = 0
claimEffects(w, id) ==
  SStore(SStore(w, id, "active", FALSE), id, "collateralAmount", 0)

\* The closure announced before the default.
claimEventsClosedFirst(w) ==
  Emit(Emit(Emit(w, "LoanClosed"), "LoanDefaulted"), "CollateralClaimed")

\* emit LoanDefaulted; emit CollateralClaimed; emit LoanClosed
claimEvents(w) ==
  Emit(Emit(Emit(w, "LoanDefaulted"), "CollateralClaimed"), "LoanClosed")

\* claimCollateral up to its call{value} to the lender.
claimCollateralEnter(w0, sender, id) ==
  LET w == w0 IN
  IF ~nonReentrant(w) THEN Ended(Revert(w0, w, "ReentrancyGuardReentrantCall"))
  ELSE IF ~whenNotPaused(w) THEN Ended(Revert(w0, w, "EnforcedPause"))
  ELSE IF ~loanExists(w, id) THEN Ended(Revert(w0, w, "LoanDoesNotExist"))
  ELSE IF ~onlyLender(w, sender, id) THEN Ended(Revert(w0, w, "NotLender"))
  ELSE IF ~loanFunded(w, id) THEN Ended(Revert(w0, w, "LoanNotFunded"))
  ELSE IF ~loanActive(w, id) THEN Ended(Revert(w0, w, "LoanNotActive"))
  ELSE
    LET loan == w.loans[id]
        startTime == loan.startTime
        duration == loan.duration
        principal == loan.principal
        repaymentCapPercent == loan.repaymentCapPercent
        totalRepaid == loan.totalRepaid
        lender == loan.lender
    IN
    IF startTime + duration > MaxUint THEN Ended(Revert(w0, w, "Panic"))
    ELSE IF notMatured(w.now, startTime, duration)
      THEN Ended(Revert(w0, w, "LoanNotMatured"))
    ELSE IF principal * repaymentCapPercent > MaxUint
      THEN Ended(Revert(w0, w, "Panic"))
    ELSE IF totalRepaid >= requiredRepayment(principal, repaymentCapPercent)
      THEN Ended(Revert(w0, w, "LoanFullyRepaid"))
    ELSE
      LET collateral == loan.collateralAmount IN
      IF noCollateral(collateral) THEN Ended(Revert(w0, w, "NoCollateral"))
      ELSE
        LET wa == [w EXCEPT !.entered = TRUE]
            wc == claimEffects(wa, id)
            wf == claimEvents(wc)
        IN Calling(wf, lender, collateral, <<>>)

\* claimCollateral from the return of its call{value}.
claimCollateralExit(w0, c) ==
  IF ~c.success THEN Revert(w0, c.w, "TransferFailed")
  ELSE Return([c.w EXCEPT !.entered = FALSE])

\* -------------------------------------------------------------- getLoan
getLoan(w, id) ==
  IF ~loanExists(w, id) THEN Revert(w, w, "LoanDoesNotExist")
  ELSE Return(w)

\* ------------------------------------------------ the external call
\* A call that carries no value.
transferNothing(w, to, amount) ==
  [w EXCEPT !.trace = Append(@, <<"call", to, amount>>)]

\* The value a call{value: amount} carries leaves the contract for `to`.
transfer(w, to, amount) ==
  [w EXCEPT !.bal[Ledger] = @ - amount, !.bal[to] = @ + amount,
            !.trace = Append(@, <<"call", to, amount>>)]

\* (bool success, ) = to.call{value: amount}("") to a recipient that does not
\* call back: the value moves and the recipient accepts or rejects it.
send(w, to, amount, cb) ==
  LET w1 == transfer(w, to, amount)
  IN IF cb.accept THEN [success |-> TRUE, w |-> w1]
     ELSE [success |-> FALSE, w |-> [w EXCEPT !.trace = w1.trace]]

\* The three functions as a recipient calls them from inside a transfer, and
\* as they run when every recipient only accepts: their own recipients make
\* no further call.
fundLoanQuiet(w0, sender, value, id) ==
  LET p == fundLoanEnter(w0, sender, value, id) IN
  IF p.done THEN p.r
  ELSE fundLoanExit(w0, send(p.w, p.to, p.amount, Quiet))

repayQuiet(w0, sender, value, id) ==
  LET p == repayEnter(w0, sender, value, id) IN
  IF p.done THEN p.r
  ELSE LET q == repayClose(w0, id, p.locals,
                           send(p.w, p.to, p.amount, Quiet)) IN
       IF q.done THEN q.r
       ELSE repayExit(w0, send(q.w, q.to, q.amount, Quiet))

claimCollateralQuiet(w0, sender, id) ==
  LET p == claimCollateralEnter(w0, sender, id) IN
  IF p.done THEN p.r
  ELSE claimCollateralExit(w0, send(p.w, p.to, p.amount, Quiet))

\* The value a recipient attaches to its call: what the function asks for.
attached(w, nc) ==
  CASE nc.op = "fundLoan" -> w.loans[nc.id].principal
    [] nc.op = "repay"    -> 1
    [] OTHER              -> 0

\* The function a recipient calls back, run with the recipient as msg.sender.
nestedCall(w, from, nc, value) ==
  CASE nc.op = "createLoan" -> createLoan(w, from, value, 1, 1, 100, 1)
    [] nc.op = "fundLoan"   -> fundLoanQuiet(w, from, value, nc.id)
    [] nc.op = "repay"      -> repayQuiet(w, from, value, nc.id)
    [] nc.op = "claimCollateral" -> claimCollateralQuiet(w, from, nc.id)
    [] nc.op = "getLoan"    -> getLoan(w, nc.id)
    [] nc.op = "pause"      -> pause(w, from)
    [] nc.op = "unpause"    -> unpause(w, from)

\* The contract after the nested call with result r, which the recipient
\* swallows if it reverted; `nested` notes the call, what it did and what
\* getLoan returned to the recipient.
nestedDone(w, from, nc, r) ==
  [r.w EXCEPT !.nested =
     Append(w.nested,
            [op |-> nc.op, from |-> from, paused |-> w.paused, err |-> r.err,
             ret |-> IF nc.op = "getLoan" /\ r.ok THEN <<r.w.loans[nc.id]>>
                     ELSE <<>>,
             changed |-> \/ r.w.loans # w.loans
                         \/ r.w.nextLoanId # w.nextLoanId
                         \/ r.w.paused # w.paused
                         \/ r.w.bal # w.bal])]

\* What the recipient's code does with its one call back into the contract,
\* if it can pay for it.
dispatch(w, from, nc) ==
  IF w.bal[from] < attached(w, nc) THEN w
  ELSE nestedDone(w, from, nc, nestedCall(w, from, nc, attached(w, nc)))

\* The outcome of a call{value} whose recipient, having left the contract as
\* w2, accepts or reverts; a revert undoes all but the record of the call.
callReturn(w, w2, cb) ==
  IF cb.accept THEN [success |-> TRUE, w |-> w2]
  ELSE [success |-> FALSE,
        w |-> [w EXCEPT !.nested = w2.nested, !.trace = w2.trace]]

\* (bool success, ) = to.call{value: amount}("") to any recipient.
call(w, to, amount, cb) ==
  callReturn(w,
             IF cb.nested = NoCall THEN transfer(w, to, amount)
             ELSE dispatch(transfer(w, to, amount), to, cb.nested),
             cb)

\* ------------------------------------- the functions as transactions
fundLoan(w0, sender, value, id, cbs) ==
  LET p == fundLoanEnter(w0, sender, value, id) IN
  IF p.done THEN p.r
  ELSE fundLoanExit(w0, call(p.w, p.to, p.amount, cbs[1]))

repay(w0, sender, value, id, cbs) ==
  LET p == repayEnter(w0, sender, value, id) IN
  IF p.done THEN p.r
  ELSE LET q == repayClose(w0, id, p.locals,
                           call(p.w, p.to, p.amount, cbs[1])) IN
       IF q.done THEN q.r
       ELSE repayExit(w0, call(q.w, q.to, q.amount, cbs[2]))

claimCollateral(w0, sender, id, cbs) ==
  LET p == claimCollateralEnter(w0, sender, id) IN
  IF p.done THEN p.r
  ELSE claimCollateralExit(w0, call(p.w, p.to, p.amount, cbs[1]))

\* -------------------------------------------- the client (contract.js)
\* BigInt.prototype.toString(): the decimal digits, most significant first.
toString(n) ==
  IF n < 10 THEN <<n>>
  ELSE IF n < 100 THEN <<n \div 10, n % 10>>
  ELSE IF n < 1000 THEN <<n \div 100, (n \div 10) % 10, n % 10>>
  ELSE <<n \div 1000, (n \div 100) % 10, (n \div 10) % 10, n % 10>>

\* const nextId = await readContract.nextLoanId(); return nextId.toString()
getNextLoanId(w) == toString(w.nextLoanId)

\* ========================================================= transactions
\* The external calls a run of `r` with quiet recipients reaches.
Calls(r) == Cardinality({i \in DOMAIN r.w.trace : r.w.trace[i][1] = "call"})

\* The recipients' behaviours that matter to a function reaching n calls.
Recipients(n) ==
  {<<c1, c2>> : c1 \in (IF n >= 1 THEN Callbacks ELSE {Quiet}),
                c2 \in (IF n >= 2 THEN Callbacks ELSE {Quiet})}

\* The ids that createLoan calls made from the callbacks `cbs` would take.
Creates(cbs) ==
  Cardinality({i \in DOMAIN cbs : cbs[i].nested.op = "createLoan"})

Fits(cbs) == \A k \in 1..Creates(cbs) : nextLoanId + k - 1 \in LoanIds

\* Callers act on the loans made by transactions and on ids not yet taken.
Tried(id) == id \in Direct \/ ~loanExists(W, id)

\* The transaction's result becomes the chain state; `last` remembers it.
Commit(r, op, id, sender, value, args, ret) ==
  /\ loans' = r.w.loans
  /\ nextLoanId' = r.w.nextLoanId
  /\ paused' = r.w.paused
  /\ entered' = r.w.entered
  /\ owner' = r.w.owner
  /\ bal' = r.w.bal
  /\ now' = now
  /\ last' = [op |-> op, err |-> r.err, id |-> id, sender |-> sender,
              value |-> value, nested |-> r.w.nested, trace |-> r.w.trace,
              args |-> args, ret |-> ret]

\* No call of the latest transaction reverted: not the transaction itself and
\* not a call a recipient made from inside it.
Going ==
  /\ last.err = "ok"
  /\ \A k \in DOMAIN last.nested : last.nested[k].err = "ok"

Init ==
  /\ loans = [i \in LoanIds |-> ZeroLoan]
  /\ nextLoanId = 1
  /\ paused = FALSE
  /\ entered = FALSE
  /\ owner = "a1"
  /\ bal = [h \in Holders |-> IF h \in Addr THEN InitBal ELSE 0]
  /\ now = 0
  /\ last = [op |-> "constructor", err |-> "ok", id |-> 0, sender |-> "a1",
             value |-> 0, nested |-> <<>>, trace |-> <<>>, args |-> <<>>,
             ret |-> <<>>]

TxCreateLoan ==
  /\ Going
  /\ nextLoanId \in Direct
  /\ \E sender \in Addr, value \in Values, amount \in Principals,
        share \in Shares, cap \in Caps, duration \in Durations :
       /\ bal[sender] >= value
       /\ Commit(createLoan(W, sender, value, amount, share, cap, duration),
                 "createLoan", nextLoanId, sender, value,
                 <<amount, share, cap, duration>>, <<>>)

TxFundLoan ==
  /\ Going
  /\ \E sender \in Addr, value \in Values, id \in TryIds :
       /\ Tried(id)
       /\ bal[sender] >= value
       /\ \E cbs \in Recipients(Calls(fundLoanQuiet(W, sender, value, id))) :
            /\ Fits(cbs)
            /\ Commit(fundLoan(W, sender, value, id, cbs),
                      "fundLoan", id, sender, value, <<>>, <<>>)

TxRepay ==
  /\ Going
  /\ \E sender \in Addr, value \in Values, id \in TryIds :
       /\ Tried(id)
       /\ bal[sender] >= value
       /\ \E cbs \in Recipients(Calls(repayQuiet(W, sender, value, id))) :
            /\ Fits(cbs)
            /\ Commit(repay(W, sender, value, id, cbs),
                      "repay", id, sender, value, <<>>, <<>>)

TxClaimCollateral ==
  /\ Going
  /\ \E sender \in Addr, id \in TryIds :
       /\ Tried(id)
       /\ \E cbs \in Recipients(Calls(claimCollateralQuiet(W, sender, id))) :
            /\ Fits(cbs)
            /\ Commit(claimCollateral(W, sender, id, cbs),
                      "claimCollateral", id, sender, 0, <<>>, <<>>)

TxGetLoan ==
  /\ Going
  /\ \E id \in TryIds :
       LET r == getLoan(W, id) IN
       Commit(r, "getLoan", id, NoAddr, 0, <<>>,
              IF r.ok THEN <<r.w.loans[id]>> ELSE <<>>)

\* A read through the client: no transaction, nothing changes on chain.
TxGetNextLoanId ==
  /\ Going
  /\ Commit(Return(W), "getNextLoanId", 0, NoAddr, 0, <<>>,
            <<getNextLoanId(W)>>)

TxPause ==
  /\ Going
  /\ \E sender \in Addr :
       Commit(pause(W, sender), "pause", 0, sender, 0, <<>>, <<>>)

TxUnpause ==
  /\ Going
  /\ \E sender \in Addr :
       Commit(unpause(W, sender), "unpause", 0, sender, 0, <<>>, <<>>)

\* A later block: block.timestamp grows.
Tick ==
  /\ Going
  /\ now < MaxTime
  /\ now' = now + 1
  /\ UNCHANGED <<loans, nextLoanId, paused, entered, owner, bal, last>>

Next ==
  \/ TxCreateLoan
  \/ TxFundLoan
  \/ TxRepay
  \/ TxClaimCollateral
  \/ TxGetLoan
  \/ TxGetNextLoanId
  \/ TxPause
  \/ TxUnpause
  \/ Tick

Spec == Init /\ [][Next]_vars

\* ------------------------------------------- several loans side by side
\* The same contract with every id of LoanIds open to transactions, for the
\* properties that relate one loan to another.  What a call by the wrong
\* party, on a missing loan or with a wrong amount does is explored under
\* Spec; here each call is made by a party the function can accept, on a
\* created loan, at any time and in any state of the loan, to recipients
\* that accept or refuse the value and make no call of their own.  The two
\* accounts being interchangeable, the first loan is created by "a1"; the
\* terms that play no part in what a loan holds are fixed.
Passive == {cb \in Callbacks : cb.nested = NoCall}

PoolCreateLoan ==
  /\ Going
  /\ nextLoanId \in LoanIds
  /\ \E sender \in Addr, amount \in Principals \ {0}, value \in Values :
       /\ nextLoanId = 1 => sender = "a1"
       /\ bal[sender] >= value
       /\ value <= amount
       /\ Commit(createLoan(W, sender, value, amount, 1, 100, 1),
                 "createLoan", nextLoanId, sender, value,
                 <<amount, 1, 100, 1>>, <<>>)

PoolFundLoan ==
  /\ Going
  /\ \E sender \in Addr, id \in LoanIds, cb \in Passive :
       /\ loanExists(W, id)
       /\ sender # loans[id].borrower
       /\ bal[sender] >= loans[id].principal
       /\ Commit(fundLoan(W, sender, loans[id].principal, id, <<cb, cb>>),
                 "fundLoan", id, sender, loans[id].principal, <<>>, <<>>)

PoolRepay ==
  /\ Going
  /\ \E sender \in Addr, value \in Values \ {0}, id \in LoanIds, cb \in Passive :
       /\ loanExists(W, id)
       /\ sender = loans[id].borrower
       /\ bal[sender] >= value
       /\ Commit(repay(W, sender, value, id, <<Quiet, cb>>),
                 "repay", id, sender, value, <<>>, <<>>)

PoolClaimCollateral ==
  /\ Going
  /\ \E sender \in Addr, id \in LoanIds, cb \in Passive :
       /\ loanExists(W, id)
       /\ sender = loans[id].lender
       /\ Commit(claimCollateral(W, sender, id, <<cb, cb>>),
                 "claimCollateral", id, sender, 0, <<>>, <<>>)

NextPool ==
  \/ PoolCreateLoan
  \/ PoolFundLoan
  \/ PoolRepay
  \/ PoolClaimCollateral
  \/ Tick

SpecPool == Init /\ [][NextPool]_vars

TypeOK ==
  /\ nextLoanId \in 1..3
  /\ paused \in BOOLEAN
  /\ entered = FALSE
  /\ \A h \in Holders : bal[h] >= 0

\* =============================================================== claims
\* floor(principal * repaymentCapPercent / 100), as the specification states it.
Owed(l) == (l.principal * l.repaymentCapPercent) \div 100

\* The step is a transaction `op` that did not revert.
Did(op) == last'.op = op /\ last'.err = "ok" /\ now' = now /\ vars' # vars

\* C1: every successful Repay that takes totalRepaid to the amount owed or
\* beyond leaves the loan inactive with collateralAmount 0 and has moved the
\* former collateral from the ledger to the borrower; every successful Repay
\* that stays below it leaves the loan active and touches neither
\* collateralAmount nor the value the ledger holds.
C1_RepayOutcome ==
  [][Did("repay") =>
       LET id == last'.id
           before == loans[id]
           after == loans'[id]
       IN IF after.totalRepaid >= Owed(before)
          THEN /\ ~after.active
               /\ after.collateralAmount = 0
               /\ bal'[Ledger] = bal[Ledger] - before.collateralAmount
               /\ bal'[before.borrower] =
                    bal[before.borrower] - last'.value + before.collateralAmount
          ELSE /\ after.active
               /\ after.collateralAmount = before.collateralAmount
               /\ bal'[Ledger] = bal[Ledger]]_vars

\* A Repay has just closed a loan and paid its collateral back to the borrower.
C1_Witness ==
  /\ last.op = "repay" /\ last.err = "ok"
  /\ ~loans[last.id].active
  /\ loans[last.id].totalRepaid >= Owed(loans[last.id])
  /\ \E i \in DOMAIN last.trace :
       /\ last.trace[i][1] = "call"
       /\ last.trace[i][2] = loans[last.id].borrower
       /\ last.trace[i][3] > 0

\* C2: a successful Repay adds exactly the payment to totalRepaid and hands
\* exactly the payment to the lender; totalRepaid of a loan changes in no
\* other step, and it never decreases.
C2_TotalRepaidAccumulates ==
  [][/\ Did("repay") =>
          LET id == last'.id IN
          /\ loans'[id].totalRepaid = loans[id].totalRepaid + last'.value
          /\ bal'[loans[id].lender] = bal[loans[id].lender] + last'.value
     /\ \A i \in LoanIds :
          /\ loans'[i].totalRepaid >= loans[i].totalRepaid
          /\ loans'[i].totalRepaid # loans[i].totalRepaid =>
                Did("repay") /\ last'.id = i]_vars

\* A second Repay on the same loan has succeeded: the total is more than
\* the payment just made.
C2_Witness ==
  /\ last.op = "repay" /\ last.err = "ok"
  /\ last.value > 0
  /\ loans[last.id].totalRepaid > last.value

\* C3: a successful Fund leaves lender = caller, funded, active and
\* startTime = the current time, raises the borrower's balance by the
\* principal and leaves the value held by the ledger as it was.
C3_FundEffects ==
  [][Did("fundLoan") =>
       LET id == last'.id
           before == loans[id]
           after == loans'[id]
       IN /\ ~before.funded /\ ~before.active
          /\ after.lender = last'.sender
          /\ after.funded /\ after.active
          /\ after.startTime = now
          /\ last'.value = before.principal
          /\ bal'[before.borrower] = bal[before.borrower] + before.principal
          /\ bal'[last'.sender] = bal[last'.sender] - before.principal
          /\ bal'[Ledger] = bal[Ledger]]_vars

\* A Fund has succeeded at a time other than the initial one.
C3_Witness ==
  /\ last.op = "fundLoan" /\ last.err = "ok"
  /\ now > 0
  /\ loans[last.id].startTime = now
  /\ loans[last.id].lender = last.sender

\* The preconditions the specification lists for ClaimDefault, read in the
\* current state for caller `sender` and loan `id`.
PreClaim(sender, id) ==
  /\ id \in LoanIds /\ id < nextLoanId
  /\ loans[id].lender = sender
  /\ loans[id].funded /\ loans[id].active
  /\ now > loans[id].startTime + loans[id].duration
  /\ loans[id].totalRepaid < Owed(loans[id])
  /\ loans[id].collateralAmount > 0

\* The step is a transaction `op` that reverted.
Failed(op) == last'.op = op /\ last'.err # "ok" /\ last.err = "ok"

\* C4 as stated: ClaimDefault succeeds whenever the listed preconditions
\* hold.  A failed call leaves the state as it found it, so after a failed
\* ClaimDefault the preconditions read in the current state are those of the
\* call, and at least one of them would have to be false.
C4_SucceedsWhenListed ==
  (last.op = "claimCollateral" /\ last.err # "ok") =>
    ~PreClaim(last.sender, last.id)

\* C4, amended: ClaimDefault succeeds only under the listed preconditions
\* and with the ledger not paused; under them and not paused it fails only
\* because the lender refuses the transfer; on success active is false,
\* collateralAmount is 0 and the former collateral has moved from the ledger
\* to the lender.
C4_ClaimDefault ==
  [][/\ Did("claimCollateral") =>
          LET id == last'.id
              before == loans[id]
          IN /\ PreClaim(last'.sender, id)
             /\ ~paused
             /\ ~loans'[id].active
             /\ loans'[id].collateralAmount = 0
             /\ bal'[before.lender] =
                  bal[before.lender] + before.collateralAmount
             /\ bal'[Ledger] = bal[Ledger] - before.collateralAmount
     /\ Failed("claimCollateral") =>
          \/ ~PreClaim(last'.sender, last'.id)
          \/ paused
          \/ last'.err = "TransferFailed"]_vars

\* A lender has claimed the collateral of a loan that was partly repaid.
C4_Witness ==
  /\ last.op = "claimCollateral" /\ last.err = "ok"
  /\ loans[last.id].totalRepaid > 0
  /\ ~loans[last.id].active
  /\ \E i \in DOMAIN last.trace :
       /\ last.trace[i][1] = "call"
       /\ last.trace[i][2] = last.sender
       /\ last.trace[i][3] > 0

\* C5: per loan, funded is never unset and is set only by a successful Fund
\* of that loan, which finds it neither funded nor active; lender and
\* startTime change only in that step; active rises only in that step and
\* falls only in a Repay of that loan that reaches the amount owed or in a
\* ClaimDefault of that loan; a loan that is funded and inactive stays so.
C5_Lifecycle ==
  [][\A i \in LoanIds :
       LET before == loans[i]
           after == loans'[i]
           funds == Did("fundLoan") /\ last'.id = i
       IN /\ before.funded => after.funded
          /\ (~before.funded /\ after.funded) => funds /\ ~before.active
          /\ funds => ~before.funded /\ after.funded
          /\ (after.lender # before.lender \/ after.startTime # before.startTime)
               => funds
          /\ (~before.active /\ after.active) => funds
          /\ (before.active /\ ~after.active) =>
               /\ last'.id = i /\ before.funded
               /\ \/ Did("repay") /\ after.totalRepaid >= Owed(after)
                  \/ Did("claimCollateral")
          /\ (before.funded /\ ~before.active) => ~after.active]_vars

\* A Fund of a loan that was funded before, and has since been closed, was
\* turned away.
C5_Witness ==
  /\ last.op = "fundLoan" /\ last.err = "LoanAlreadyFunded"
  /\ loans[last.id].funded /\ ~loans[last.id].active
  /\ last.sender # loans[last.id].borrower
  /\ last.value = loans[last.id].principal

\* The loan `i` has been created.
Created(i) == i < nextLoanId

\* C6: every active loan has totalRepaid strictly below the amount owed, and
\* a created loan whose totalRepaid has reached the amount owed is inactive
\* and is so, with the amount still reached, after every further step.
C6_RepaidMeansClosed ==
  [][\A i \in LoanIds :
       /\ loans[i].active => loans[i].totalRepaid < Owed(loans[i])
       /\ loans'[i].active => loans'[i].totalRepaid < Owed(loans'[i])
       /\ (Created(i) /\ loans[i].totalRepaid >= Owed(loans[i])) =>
            /\ ~loans[i].active
            /\ ~loans'[i].active
            /\ loans'[i].totalRepaid >= Owed(loans'[i])]_vars

\* A further Repay on a loan that was repaid in full one unit at a time was
\* turned away because the loan is closed.
C6_Witness ==
  /\ last.op = "repay" /\ last.err = "LoanNotActive"
  /\ Created(last.id)
  /\ loans[last.id].totalRepaid = Owed(loans[last.id])
  /\ Owed(loans[last.id]) > 1
  /\ ~loans[last.id].active

C8_AtomicFailure ==
  [][(last'.err # "ok" /\ last.err = "ok") =>
       /\ last'.op \in {"createLoan", "fundLoan", "repay", "claimCollateral",
                        "pause", "unpause", "getLoan"}
       /\ UNCHANGED <<loans, nextLoanId, paused, entered, owner, bal, now>>]_vars

\* A Repay reverted at its second transfer: the lender had taken the payment
\* and the borrower refused the collateral.
C8_Witness ==
  /\ last.op = "repay" /\ last.err = "TransferFailed"
  /\ loans[last.id].active
  /\ loans[last.id].collateralAmount > 0
  /\ Cardinality({i \in DOMAIN last.trace : last.trace[i][1] = "call"}) = 2

\* The operations that change the ledger's loans.
Mutating == GuardedOps \cup {"createLoan"}

Tx(op) == last'.op = op /\ now' = now /\ vars' # vars

\* C10: the pause switch changes only in a pause or unpause called by the
\* owner, which changes nothing else; in a paused ledger Create, Fund, Repay
\* and ClaimDefault fail with EnforcedPause and change nothing, also when
\* called from inside a transfer, and Get returns the record of every
\* created loan.
C10_PauseSwitch ==
  [][/\ paused' # paused =>
          \/ /\ Did("pause") \/ Did("unpause")
             /\ last'.sender = owner
          \/ \E k \in DOMAIN last'.nested :
               /\ last'.nested[k].op \in {"pause", "unpause"}
               /\ last'.nested[k].err = "ok"
               /\ last'.nested[k].from = owner
     /\ (Did("pause") \/ Did("unpause")) =>
          /\ paused' = ~paused
          /\ UNCHANGED <<loans, nextLoanId, entered, owner, bal, now>>
     /\ \A op \in Mutating :
          (paused /\ Tx(op)) =>
            /\ last'.err = "EnforcedPause"
            /\ UNCHANGED <<loans, nextLoanId, paused, entered, owner, bal, now>>
     /\ \A k \in DOMAIN last'.nested :
          (last'.nested[k].paused /\ last'.nested[k].op \in Mutating) =>
            last'.nested[k].err # "ok" /\ ~last'.nested[k].changed
     /\ (paused /\ Tx("getLoan") /\ Created(last'.id) /\ last'.id # 0) =>
          last'.err = "ok" /\ last'.ret = <<loans[last'.id]>>]_vars

\* In a paused ledger the borrower's Repay of an active loan was refused.
C10_Witness ==
  /\ paused
  /\ last.op = "repay" /\ last.err = "EnforcedPause"
  /\ Created(last.id) /\ last.id # 0
  /\ loans[last.id].active
  /\ last.sender = loans[last.id].borrower
  /\ last.value > 0

\* The step changes nothing of the chain: no storage, no balance, no time.
Untouched == UNCHANGED <<loans, nextLoanId, paused, entered, owner, bal, now>>

\* The transaction of the step names a created loan.
OnCreated == last'.id # 0 /\ Created(last'.id)

\* C11: with the ledger not paused, a Fund of a loan that is already funded,
\* by any caller and with any value, fails with LoanAlreadyFunded and
\* changes nothing, so lender, funded, active, startTime and the balances
\* are those the first Fund left.
C11_SecondFundFails ==
  [][(Tx("fundLoan") /\ ~paused /\ OnCreated /\ loans[last'.id].funded) =>
       /\ last'.err = "LoanAlreadyFunded"
       /\ Untouched]_vars

\* The borrower tried a Fund, with a value other than the principal, of
\* its own loan that is funded and still active.
C11_Witness ==
  /\ last.op = "fundLoan" /\ last.err = "LoanAlreadyFunded"
  /\ loans[last.id].funded /\ loans[last.id].active
  /\ last.sender = loans[last.id].borrower
  /\ last.value # loans[last.id].principal

\* The lender calls ClaimDefault on its funded, active loan in the step.
LenderClaims ==
  /\ Tx("claimCollateral") /\ ~paused /\ OnCreated
  /\ loans[last'.id].lender = last'.sender
  /\ loans[last'.id].funded /\ loans[last'.id].active

\* C12: with the ledger not paused, the lender's ClaimDefault on a funded,
\* active loan at a time not after startTime + duration fails with
\* LoanNotMatured and changes nothing; every ClaimDefault that succeeds
\* happens at a time strictly after startTime + duration.
C12_MaturityIsStrict ==
  [][/\ (LenderClaims /\
         now <= loans[last'.id].startTime + loans[last'.id].duration) =>
          last'.err = "LoanNotMatured" /\ Untouched
     /\ Did("claimCollateral") =>
          now > loans[last'.id].startTime + loans[last'.id].duration]_vars

\* The lender claimed at exactly startTime + duration, some time after the
\* funding, and was told the loan has not matured.
C12_Witness ==
  /\ last.op = "claimCollateral" /\ last.err = "LoanNotMatured"
  /\ last.sender = loans[last.id].lender
  /\ now = loans[last.id].startTime + loans[last.id].duration
  /\ loans[last.id].collateralAmount > 0
  /\ loans[last.id].active

\* The inputs the specification has Create reject: <<principal,
\* revenueSharePercent, repaymentCapPercent, duration>> and the posted value.
Rejected(args, value) ==
  \/ args[1] = 0
  \/ args[2] = 0
  \/ args[3] < 100
  \/ args[4] = 0
  \/ value > args[1]

\* C13: with the ledger not paused, Create fails exactly on the inputs with
\* principal = 0, revenueSharePercent = 0, repaymentCapPercent < 100,
\* duration = 0 or postedValue > principal, and a Create that fails
\* allocates no record, leaves the id counter alone and keeps no value.
C13_CreateValidation ==
  [][(Tx("createLoan") /\ ~paused) =>
       /\ last'.err # "ok" <=> Rejected(last'.args, last'.value)
       /\ last'.err # "ok" =>
            /\ Untouched
            /\ last'.err \in {"InvalidPrincipal", "InvalidRevenueShare",
                              "InvalidRepaymentCap", "InvalidDuration",
                              "CollateralTooHigh"}]_vars

\* A Create posting one unit more than the principal, valid otherwise, was
\* turned away.
C13_Witness ==
  /\ last.op = "createLoan" /\ last.err = "CollateralTooHigh"
  /\ last.value = last.args[1] + 1
  /\ last.args[1] > 0 /\ last.args[2] > 0
  /\ last.args[3] >= 100 /\ last.args[4] > 0
  /\ nextLoanId = 1

\* The calls of Create that recipients made in the transaction of the step
\* and that went through.
NestedCreates ==
  Cardinality({k \in DOMAIN last'.nested :
                 /\ last'.nested[k].op = "createLoan"
                 /\ last'.nested[k].err = "ok"})

\* C14: a successful Create gives the loan the id the counter held, raises
\* the counter by one and writes the record borrower = caller, lender =
\* none, funded = active = FALSE, totalRepaid = 0, collateralAmount =
\* postedValue, startTime = 0 with the supplied terms; the counter moves
\* only by one per successful Create, never down, and the record of a
\* created loan keeps its borrower and terms, so no id is used twice.
C14_CreateAllocates ==
  [][/\ Did("createLoan") =>
          /\ last'.id = nextLoanId
          /\ loans'[last'.id] =
               [borrower |-> last'.sender, lender |-> NoAddr,
                principal |-> last'.args[1],
                revenueSharePercent |-> last'.args[2],
                repaymentCapPercent |-> last'.args[3],
                totalRepaid |-> 0, funded |-> FALSE, active |-> FALSE,
                collateralAmount |-> last'.value, startTime |-> 0,
                duration |-> last'.args[4]]
          /\ bal'[Ledger] = bal[Ledger] + last'.value
     /\ nextLoanId' =
          nextLoanId +
            (IF now' = now /\ vars' # vars /\ last'.err = "ok"
             THEN (IF last'.op = "createLoan" THEN 1 ELSE 0) + NestedCreates
             ELSE 0)
     /\ \A i \in LoanIds :
          /\ (~Created(i) /\ i < nextLoanId') =>
               /\ loans'[i].borrower \in Addr
               /\ loans'[i].lender = NoAddr
               /\ ~loans'[i].funded /\ ~loans'[i].active
               /\ loans'[i].totalRepaid = 0 /\ loans'[i].startTime = 0
          /\ (~Created(i) /\ i >= nextLoanId') => loans'[i] = ZeroLoan
          /\ Created(i) =>
               /\ loans'[i].borrower = loans[i].borrower
               /\ loans'[i].principal = loans[i].principal
               /\ loans'[i].revenueSharePercent = loans[i].revenueSharePercent
               /\ loans'[i].repaymentCapPercent = loans[i].repaymentCapPercent
               /\ loans'[i].duration = loans[i].duration]_vars

\* A Create by an account other than the deployer, posting collateral below
\* the principal, went through and took id 1.
C14_Witness ==
  /\ last.op = "createLoan" /\ last.err = "ok"
  /\ last.id = 1 /\ nextLoanId = 2
  /\ last.sender # owner
  /\ last.value > 0 /\ last.value < last.args[1]
  /\ loans[1].collateralAmount = last.value

C16_UnfundedClaimNotFunded ==
  (/\ last.op = "claimCollateral" /\ ~paused
   /\ last.id # 0 /\ Created(last.id)
   /\ ~loans[last.id].funded)
  => last.err = "LoanNotFunded"

\* The loan the transaction of the step names is closed: funded, inactive.
OnClosed ==
  OnCreated /\ loans[last'.id].funded /\ ~loans[last'.id].active

C18_RepayRejections ==
  [][(Tx("repay") /\ ~paused /\ OnCreated) =>
       LET loan == loans[last'.id] IN
       /\ last'.sender # loan.borrower =>
            last'.err = "NotBorrower" /\ Untouched
       /\ (last'.sender = loan.borrower /\ ~loan.funded) =>
            last'.err = "LoanNotFunded" /\ Untouched
       /\ (last'.sender = loan.borrower /\ loan.funded /\ loan.active
           /\ last'.value = 0) =>
            last'.err = "RepaymentMustBePositive" /\ Untouched]_vars

\* The borrower sent a Repay of 0 to its active, partly repaid loan.
C18_Witness ==
  /\ last.op = "repay" /\ last.err = "RepaymentMustBePositive"
  /\ last.value = 0
  /\ last.sender = loans[last.id].borrower
  /\ loans[last.id].active
  /\ loans[last.id].totalRepaid > 0

\* C19: with the ledger not paused, a Fund of a created, unfunded loan
\* fails and changes nothing: with BorrowerCannotFundOwnLoan when the
\* borrower calls, with IncorrectFundingAmount when another caller sends a
\* value below or above the principal.
C19_FundRejections ==
  [][(Tx("fundLoan") /\ ~paused /\ OnCreated /\ ~loans[last'.id].funded) =>
       LET loan == loans[last'.id] IN
       /\ last'.sender = loan.borrower =>
            last'.err = "BorrowerCannotFundOwnLoan" /\ Untouched
       /\ (last'.sender # loan.borrower /\ last'.value # loan.principal) =>
            last'.err = "IncorrectFundingAmount" /\ Untouched]_vars

\* A Fund sending more than the principal was turned away; the loan has no
\* lender.
C19_Witness ==
  /\ last.op = "fundLoan" /\ last.err = "IncorrectFundingAmount"
  /\ last.value > loans[last.id].principal
  /\ last.sender # loans[last.id].borrower
  /\ loans[last.id].lender = NoAddr
  /\ ~loans[last.id].funded

\* C20: Fund, Repay and ClaimDefault (with the ledger not paused) and Get
\* fail with LoanDoesNotExist on id 0 and on every id from the counter up;
\* Get returns the stored record of every id below the counter, paused or
\* not, closed or not; Get changes nothing.
C20_IdRange ==
  [][/\ \A op \in GuardedOps :
          (Tx(op) /\ ~paused /\ ~OnCreated) =>
            last'.err = "LoanDoesNotExist" /\ Untouched
     /\ Tx("getLoan") =>
          /\ Untouched
          /\ IF OnCreated
             THEN last'.err = "ok" /\ last'.ret = <<loans[last'.id]>>
             ELSE last'.err = "LoanDoesNotExist" /\ last'.ret = <<>>]_vars

\* Get returned the record of a closed loan.
C20_Witness ==
  /\ last.op = "getLoan" /\ last.err = "ok"
  /\ last.ret = <<loans[last.id]>>
  /\ loans[last.id].funded /\ ~loans[last.id].active

\* The borrower sends a positive Repay to its active loan in the step.
BorrowerPays ==
  /\ Tx("repay") /\ ~paused /\ OnCreated
  /\ last'.sender = loans[last'.id].borrower
  /\ loans[last'.id].active
  /\ last'.value > 0

\* C21: with the ledger not paused, the borrower's Repay of any positive
\* value on an active loan is turned away only when a recipient refuses a
\* transfer; a Repay that takes totalRepaid above the amount owed hands the
\* whole payment to the lender, closes the loan and returns to the borrower
\* the collateral and nothing else, so the excess stays with the lender.
C21_OverpaymentKept ==
  [][/\ BorrowerPays => last'.err \in {"ok", "TransferFailed"}
     /\ (Did("repay") /\
         loans[last'.id].totalRepaid + last'.value > Owed(loans[last'.id])) =>
          LET id == last'.id
              before == loans[id]
          IN /\ loans'[id].totalRepaid = before.totalRepaid + last'.value
             /\ loans'[id].totalRepaid > Owed(before)
             /\ ~loans'[id].active
             /\ bal'[before.lender] = bal[before.lender] + last'.value
             /\ bal'[before.borrower] =
                  bal[before.borrower] - last'.value + before.collateralAmount
             /\ bal'[Ledger] = bal[Ledger] - before.collateralAmount]_vars

\* A single Repay of more than the whole amount owed closed a loan that
\* held collateral.
C21_Witness ==
  /\ last.op = "repay" /\ last.err = "ok"
  /\ loans[last.id].totalRepaid = last.value
  /\ last.value > Owed(loans[last.id])
  /\ ~loans[last.id].active
  /\ \E i \in DOMAIN last.trace :
       /\ last.trace[i][1] = "call"
       /\ last.trace[i][2] = last.sender
       /\ last.trace[i][3] > 0

\* The loans created so far: the records that have a borrower.
LoansCreated == Cardinality({i \in LoanIds : loans[i].borrower # NoAddr})

\* C22: the client's getNextLoanId returns the number of loans created so
\* far, in decimal: n after n successful Creates on a fresh ledger.
C22_ReturnsLoanCount ==
  last.op = "getNextLoanId" => last.ret = <<toString(LoansCreated)>>

\* C23: in a Repay every write to the loan's record comes before the first
\* transfer of value: nothing is stored once a call{value} has been made.
C23_WritesBeforeTransfers ==
  last.op = "repay" =>
    \A i, j \in DOMAIN last.trace :
      (i < j /\ last.trace[i][1] = "call") => last.trace[j][1] # "sstore"

\* The position in the trace of the transaction of the step of its first
\* transfer of value, 0 if it made none.
FirstCall ==
  IF \E i \in DOMAIN last'.trace : last'.trace[i][1] = "call"
  THEN CHOOSE i \in DOMAIN last'.trace :
         /\ last'.trace[i][1] = "call"
         /\ \A j \in 1..(i - 1) : last'.trace[j][1] # "call"
  ELSE 0

\* C24: a Fund that reaches its transfer has by then written lender,
\* funded, active and startTime and writes nothing after it; the borrower,
\* while it is handed the principal, reads the loan as funded and active
\* with lender = caller and startTime = now, and a Fund it calls fails and
\* changes nothing; a Fund whose transfer is refused changes nothing and
\* leaves the loan unfunded and inactive with no lender and startTime 0.
C24_CommittedBeforeTransfer ==
  [][(Tx("fundLoan") /\ FirstCall # 0) =>
       LET id == last'.id
           before == loans[id]
           c == FirstCall
       IN /\ last'.trace[c] = <<"call", before.borrower, before.principal>>
          /\ \A f \in {"lender", "funded", "active", "startTime"} :
               \E i \in 1..(c - 1) : last'.trace[i] = <<"sstore", f>>
          /\ \A i \in DOMAIN last'.trace :
               i > c => last'.trace[i][1] # "sstore"
          /\ \A k \in DOMAIN last'.nested :
               LET n == last'.nested[k] IN
               /\ n.op = "getLoan" =>
                    n.ret = <<[before EXCEPT !.lender = last'.sender,
                                             !.funded = TRUE,
                                             !.active = TRUE,
                                             !.startTime = now]>>
               /\ n.op = "fundLoan" => n.err # "ok" /\ ~n.changed
          /\ last'.err \in {"ok", "TransferFailed"}
          /\ last'.err = "TransferFailed" =>
               /\ Untouched
               /\ ~loans'[id].funded /\ ~loans'[id].active
               /\ loans'[id].lender = NoAddr
               /\ loans'[id].startTime = 0]_vars

\* The borrower, while it was handed the principal of a Fund made some time
\* after the deployment, read its loan and found it funded by the caller.
C24_Witness ==
  /\ last.op = "fundLoan" /\ last.err = "ok"
  /\ now > 0
  /\ \E k \in DOMAIN last.nested :
       /\ last.nested[k].op = "getLoan"
       /\ last.nested[k].from = loans[last.id].borrower
       /\ last.nested[k].ret = <<loans[last.id]>>
       /\ last.nested[k].ret[1].funded
       /\ last.nested[k].ret[1].lender = last.sender
       /\ last.nested[k].ret[1].startTime = now

\* The entry of a trace is an event about the loan the transaction names:
\* a recipient's own calls can add LoanCreated, Paused and Unpaused only.
IsLoanEvent(e) ==
  /\ e[1] = "emit"
  /\ e[2] \in {"LoanFunded", "LoanRepaid", "LoanDefaulted",
               "CollateralClaimed", "LoanClosed"}

\* C25: a successful ClaimDefault emits for its loan exactly LoanDefaulted,
\* CollateralClaimed, LoanClosed, in this order, and all three before its
\* transfer to the lender; a successful Repay that closes its loan emits
\* for it LoanRepaid and LoanClosed and no LoanDefaulted.
C25_EventOrder ==
  [][/\ Did("claimCollateral") =>
          /\ SelectSeq(last'.trace, IsLoanEvent) =
               << <<"emit", "LoanDefaulted">>, <<"emit", "CollateralClaimed">>,
                  <<"emit", "LoanClosed">> >>
          /\ FirstCall # 0
          /\ last'.trace[FirstCall] =
               <<"call", last'.sender, loans[last'.id].collateralAmount>>
          /\ \A i \in DOMAIN last'.trace :
               IsLoanEvent(last'.trace[i]) => i < FirstCall
     /\ (Did("repay") /\ ~loans'[last'.id].active) =>
          SelectSeq(last'.trace, IsLoanEvent) =
            << <<"emit", "LoanRepaid">>, <<"emit", "LoanClosed">> >>]_vars

\* A ClaimDefault went through whose lender, while it was handed the
\* collateral, created a loan of its own: the three events, the transfer,
\* then the event of the new loan.
C25_Witness ==
  /\ last.op = "claimCollateral" /\ last.err = "ok"
  /\ Len(last.trace) >= 7
  /\ last.trace[5] = <<"emit", "LoanClosed">>
  /\ last.trace[6][1] = "call"
  /\ last.trace[7] = <<"emit", "LoanCreated">>

\* The sum of collateralAmount over all loans.
Held(ls) ==
  Cardinality({p \in LoanIds \X (1..(MaxPrincipal + 1)) :
                 p[2] <= ls[p[1]].collateralAmount})

\* C26: between transactions the value the ledger holds is the sum of
\* collateralAmount over all loans; a successful Fund, and a successful
\* Repay that does not close its loan, leave the value held as it was; the
\* value held falls only in a step that takes one loan's collateralAmount
\* from that amount to 0.
C26_HeldIsCollateral ==
  [][/\ bal[Ledger] = Held(loans)
     /\ bal'[Ledger] = Held(loans')
     /\ (Did("fundLoan") \/ (Did("repay") /\ loans'[last'.id].active)) =>
          bal'[Ledger] = bal[Ledger] /\ last'.value > 0
     /\ bal'[Ledger] < bal[Ledger] =>
          /\ loans[last'.id].collateralAmount = bal[Ledger] - bal'[Ledger]
          /\ loans'[last'.id].collateralAmount = 0
          /\ Did("repay") \/ Did("claimCollateral")]_vars

\* The ledger holds collateral after one loan's collateral was paid out to
\* the lender: what is left is the collateral of another loan.
C26_Witness ==
  /\ last.op = "claimCollateral" /\ last.err = "ok"
  /\ loans[last.id].collateralAmount = 0
  /\ bal[Ledger] > 0
  /\ bal[Ledger] = Held(loans)

\* Loan `id` is past maturity, active, under-repaid and holds collateral,
\* the ledger is open and the borrower can pay what is still owed.
RaceOpen(id) ==
  /\ Going /\ ~paused
  /\ PreClaim(loans[id].lender, id)
  /\ bal[loans[id].borrower] >= Owed(loans[id]) - loans[id].totalRepaid

\* What is still owed on a loan.
Remaining(l) == Owed(l) - l.totalRepaid

\* From the current state the borrower's Repay of what is still owed on loan
\* `id` goes through, closes the loan and returns the collateral to the
\* borrower, and the lender's ClaimDefault made after it fails.
RepayWon(id, l, r) ==
  /\ r.ok
  /\ ~r.w.loans[id].active
  /\ r.w.loans[id].collateralAmount = 0
  /\ r.w.bal[l.borrower] = bal[l.borrower] - Remaining(l) + l.collateralAmount
  /\ r.w.bal[l.lender] = bal[l.lender] + Remaining(l)
  /\ claimCollateralQuiet(r.w, l.lender, id).err = "LoanNotActive"

RepayWins(id) ==
  RepayWon(id, loans[id],
           repayQuiet(W, loans[id].borrower, Remaining(loans[id]), id))

\* From the current state the lender's ClaimDefault on loan `id` goes
\* through, closes the loan and hands the collateral to the lender, and the
\* borrower's Repay made after it fails.
ClaimWon(id, l, r) ==
  /\ r.ok
  /\ ~r.w.loans[id].active
  /\ r.w.loans[id].collateralAmount = 0
  /\ r.w.bal[l.lender] = bal[l.lender] + l.collateralAmount
  /\ r.w.bal[l.borrower] = bal[l.borrower]
  /\ repayQuiet(r.w, l.borrower, Remaining(l), id).err = "LoanNotActive"

ClaimWins(id) ==
  ClaimWon(id, loans[id], claimCollateralQuiet(W, loans[id].lender, id))

C28_RecordShape ==
  /\ \A i \in LoanIds :
       LET l == loans[i] IN
       /\ l.active => l.funded
       /\ l.funded <=> l.lender # NoAddr
       /\ l.funded => l.lender \in Addr /\ l.startTime <= now
       /\ ~l.funded => l.startTime = 0 /\ l.totalRepaid = 0
       /\ l.funded => l.lender # l.borrower /\ Created(i)
  /\ last.err # "LoanAlreadyActive"
  /\ \A k \in DOMAIN last.nested : last.nested[k].err # "LoanAlreadyActive"

\* An account other than the borrower sent the principal to a loan that is
\* active, funded some time after the deployment and partly repaid: the
\* reason reported is LoanAlreadyFunded.
C28_Witness ==
  /\ last.op = "fundLoan" /\ last.err = "LoanAlreadyFunded"
  /\ last.sender # loans[last.id].borrower
  /\ last.value = loans[last.id].principal
  /\ loans[last.id].active /\ loans[last.id].funded
  /\ loans[last.id].startTime > 0
  /\ loans[last.id].totalRepaid > 0

\* Loan `i` has been created and no lender has funded it.
Unfunded(i) == Created(i) /\ loans[i].lender = NoAddr

\* C29: while a created loan has not been funded, no step changes its
\* collateralAmount, the ledger goes on holding at least that amount and
\* pays nothing out in a transaction on that loan; every Repay and every
\* ClaimDefault on it, by any caller, fails and changes nothing; its
\* record changes only in the successful Fund that gives it a lender; and
\* the contract has no operation besides Create, Fund, Repay,
\* ClaimDefault, Get, pause and unpause.
C29_UnfundedCollateralStays ==
  [][/\ \A i \in LoanIds :
          Unfunded(i) =>
            /\ loans'[i].collateralAmount = loans[i].collateralAmount
            /\ bal'[Ledger] >= loans'[i].collateralAmount
            /\ bal'[Ledger] < bal[Ledger] => last'.id # i
            /\ loans'[i] # loans[i] =>
                 /\ Did("fundLoan") /\ last'.id = i
                 /\ loans'[i].lender = last'.sender
                 /\ loans'[i].funded
            /\ (last'.id = i /\ (Tx("repay") \/ Tx("claimCollateral"))) =>
                 last'.err # "ok" /\ Untouched
     /\ (now' = now /\ vars' # vars) =>
          last'.op \in {"createLoan", "fundLoan", "repay", "claimCollateral",
                        "getLoan", "getNextLoanId", "pause", "unpause"}]_vars

\* Past the duration it asked for, the borrower of a loan that nobody
\* funded tried a ClaimDefault to get its collateral back and was refused.
C29_Witness ==
  /\ last.op = "claimCollateral" /\ last.err # "ok"
  /\ ~paused
  /\ Created(last.id) /\ last.id # 0
  /\ last.sender = loans[last.id].borrower
  /\ loans[last.id].lender = NoAddr /\ ~loans[last.id].funded
  /\ loans[last.id].collateralAmount > 0
  /\ bal[Ledger] = loans[last.id].collateralAmount
  /\ now > loans[last.id].duration

\* C30: with the ledger not paused, the lender's ClaimDefault on an active
\* loan that holds no collateral fails at every time after startTime +
\* duration with NoCollateral and changes nothing; no ClaimDefault ever
\* closes a loan without collateral; such a loan stays active in every step
\* but a successful Repay that takes totalRepaid to the amount owed.
C30_NoCollateralNoDefault ==
  [][/\ (/\ LenderClaims
         /\ loans[last'.id].collateralAmount = 0
         /\ now > loans[last'.id].startTime + loans[last'.id].duration) =>
          last'.err = "NoCollateral" /\ Untouched
     /\ Did("claimCollateral") => loans[last'.id].collateralAmount > 0
     /\ \A i \in LoanIds :
          (loans[i].active /\ loans[i].collateralAmount = 0) =>
            \/ loans'[i].active /\ loans'[i].collateralAmount = 0
            \/ /\ Did("repay") /\ last'.id = i
               /\ loans'[i].totalRepaid >= Owed(loans[i])]_vars

\* Well after maturity the lender of a partly repaid loan that was created
\* without collateral tried a ClaimDefault and was told there is none.
C30_Witness ==
  /\ last.op = "claimCollateral" /\ last.err = "NoCollateral"
  /\ last.sender = loans[last.id].lender
  /\ loans[last.id].active
  /\ loans[last.id].collateralAmount = 0
  /\ loans[last.id].totalRepaid > 0
  /\ now > loans[last.id].startTime + loans[last.id].duration
  /\ now = MaxTime

====
